---------------------------- MODULE Spec2Model ----------------------------
(***************************************************************************)
(* A model of scanner.py: one run of main() -- the ticker fetch, the       *)
(* filter / rank / score pipeline, the report formatter and the Telegram   *)
(* send -- as a state machine whose steps are cut at the run's I/O events.  *)
(*                                                                         *)
(* Representation                                                          *)
(*   strings   sequences of one-character strings                          *)
(*   JSON      a raw field value is [k, v]: k = "absent" (key missing),    *)
(*             "null", "str" (a non-numeric string), "num" (a number or a  *)
(*             numeric string, value v), "nan", "inf", "ninf" (strings     *)
(*             float() parses to NaN, +Infinity, -Infinity)                *)
(*   floats    [k, v]: k = "fin" (value v), "inf", "ninf", "nan"           *)
(*   units     quoteVolume in USDT, count in trades, priceChangePercent in *)
(*             tenths of a percent, lastPrice in millionths, momentum in   *)
(*             1/8400, log10 in 1/100,000, score in 1/14,000,000           *)
(***************************************************************************)
EXTENDS Integers, Sequences, FiniteSets

VARIABLES
    env,         \* os.environ: which credentials are set
    market,      \* what the ticker endpoint answers with when it answers 200
    pc,          \* position of main(): start, fetched, ranked, done, aborted
    tickers,     \* main's local: the fetched list
    top,         \* main's local: usdt[:200] after the volume sort
    scored,      \* main's local: candidates in append order (line 137)
    candidates,  \* main's local: candidates after the score sort (line 140)
    best,        \* main's local: the rows handed on (line 141)
    gets,        \* HTTP GETs started
    posts,       \* HTTP POSTs started
    sent,        \* texts delivered (POST answered 200)
    formatted,   \* row counts of the calls of format_watchlist
    error        \* the exception that ended the run, "none" otherwise

vars == <<env, market, pc, tickers, top, scored, candidates, best,
          gets, posts, sent, formatted, error>>

----------------------------------------------------------------------------
(* Floats *)

Fin(n) == [k |-> "fin", v |-> n]
NaN    == [k |-> "nan", v |-> 0]
PInf   == [k |-> "inf", v |-> 0]
NInf   == [k |-> "ninf", v |-> 0]

\* a < b on floats: every comparison with NaN is false
FLt(a, b) ==
    CASE a.k = "nan" \/ b.k = "nan" -> FALSE
      [] a.k = "ninf" -> b.k # "ninf"
      [] a.k = "inf"  -> FALSE
      [] OTHER        -> b.k = "inf" \/ (b.k = "fin" /\ a.v < b.v)

\* a <= b on floats
FLe(a, b) ==
    CASE a.k = "nan" \/ b.k = "nan" -> FALSE
      [] OTHER -> ~FLt(b, a)

\* a > b on floats
FGt(a, b) == FLt(b, a)

\* a >= b on floats
FGe(a, b) == FLe(b, a)

IsNaN(a) == a.k = "nan"

Min2(a, b) == IF a < b THEN a ELSE b

----------------------------------------------------------------------------
(* Strings *)

USDT == <<"U", "S", "D", "T">>
SLASH_USDT == <<"/">> \o USDT

\* str.endswith
endswith(s, x) ==
    /\ Len(x) <= Len(s)
    /\ SubSeq(s, Len(s) - Len(x) + 1, Len(s)) = x

\* str.startswith
startswith(s, x) ==
    /\ Len(x) <= Len(s)
    /\ SubSeq(s, 1, Len(x)) = x

RECURSIVE replace_first(_, _, _)
\* str.replace(old, new, 1): only the leftmost occurrence
replace_first(s, old, new) ==
    IF s = <<>> THEN <<>>
    ELSE IF startswith(s, old)
         THEN new \o SubSeq(s, Len(old) + 1, Len(s))
         ELSE <<Head(s)>> \o replace_first(Tail(s), old, new)

RECURSIVE replace(_, _, _)
\* str.replace(old, new): every non-overlapping occurrence, left to right
replace(s, old, new) ==
    IF s = <<>> THEN <<>>
    ELSE IF startswith(s, old)
         THEN new \o replace(SubSeq(s, Len(old) + 1, Len(s)), old, new)
         ELSE <<Head(s)>> \o replace(Tail(s), old, new)

----------------------------------------------------------------------------
(* Ticker records: dict.get *)

None == [k |-> "null", v |-> 0]

\* t.get(key): None when the key is missing
get(t, key) == IF t[key].k = "absent" THEN None ELSE t[key]

\* t.get("symbol", ""): the empty string when the key is missing
get_symbol(t) == IF t.symbol.k = "absent" THEN <<>> ELSE t.symbol.v

----------------------------------------------------------------------------
(* scanner.py, lines 27-42 *)

\* a plausible slip: one banned suffix forgotten
banned_fragments_short ==
    { <<"U", "P">> \o USDT,
      <<"D", "O", "W", "N">> \o USDT,
      <<"B", "U", "L", "L">> \o USDT }

banned_fragments ==
    { <<"U", "P">> \o USDT,
      <<"D", "O", "W", "N">> \o USDT,
      <<"B", "U", "L", "L">> \o USDT,
      <<"B", "E", "A", "R">> \o USDT }

is_usdt_spot_symbol(sym) ==
    IF ~endswith(sym, USDT) THEN FALSE
    ELSE IF \E x \in banned_fragments : endswith(sym, x) THEN FALSE
    ELSE TRUE

\* float(x) raises on None and on a non-numeric string, and safe_float then
\* returns the default; "nan" and "inf" parse, so they come back as they are
safe_float(x) ==
    CASE x.k = "num"  -> Fin(x.v)
      [] x.k = "nan"  -> NaN
      [] x.k = "inf"  -> PInf
      [] x.k = "ninf" -> NInf
      [] OTHER        -> Fin(0)

----------------------------------------------------------------------------
(* scanner.py, lines 45-90: score_candidate *)

\* math.log10(x) in 1/100,000, for the arguments the model's tickers give
\* (exact at the powers of ten, rounded to the nearest unit elsewhere)
log10_e5(n) ==
    CASE n = 5001      -> 369906
      [] n = 10000     -> 400000
      [] n = 100000    -> 500000
      [] n = 5000001   -> 669897
      [] n = 10000000  -> 700000
      [] n = 100000000 -> 800000

\* math.log10(x + 1.0): main scores a ticker only when x >= 5000, x is
\* infinite or x is NaN
log10_plus1(x) ==
    CASE x.k = "nan" -> NaN
      [] x.k = "inf" -> PInf
      [] x.k = "fin" -> Fin(log10_e5(x.v + 1))

\* a plausible slip: the penalty branch without its min(..., 0.7) clamp
momentum_unclamped(pct) ==
    IF FLe(pct, Fin(0)) THEN Fin(-4200)
    ELSE IF FLe(pct, Fin(80)) THEN Fin(105 * pct.v)
    ELSE IF FLe(pct, Fin(150)) THEN Fin(8400 - 60 * (pct.v - 80))
    ELSE CASE pct.k = "nan" -> NaN
           [] pct.k = "inf" -> Fin(-840000)
           [] OTHER -> Fin(-2520 - 28 * (pct.v - 150))

\* lines 63-70, in 1/8400; pct in tenths of a percent.  Python's
\* min(a, 0.7) is a unless 0.7 < a, so a NaN argument comes back
momentum_of(pct) ==
    IF FLe(pct, Fin(0)) THEN Fin(-4200)
    ELSE IF FLe(pct, Fin(80)) THEN Fin(105 * pct.v)
    ELSE IF FLe(pct, Fin(150)) THEN Fin(8400 - 60 * (pct.v - 80))
    ELSE CASE pct.k = "nan" -> NaN
           [] pct.k = "inf" -> Fin(-2520 - 5880)
           [] OTHER -> Fin(-2520 - Min2(28 * (pct.v - 150), 5880))

\* lines 73-75, in 1/14,000,000: 0.2 when 0 < last_price < 0.00001
tiny_price_penalty_of(last_price) ==
    IF FGt(last_price, Fin(0)) /\ FLt(last_price, Fin(10))
    THEN 2800000 ELSE 0

\* line 78, in 1/14,000,000: 0.35 * (qvol_score + trades_score) + 0.9 * momentum
\* - tiny_price_penalty; NaN absorbs, then +Infinity
weighted_sum(qvol_score, trades_score, momentum, penalty) ==
    CASE IsNaN(qvol_score) \/ IsNaN(trades_score) \/ IsNaN(momentum) -> NaN
      [] qvol_score.k = "inf" \/ trades_score.k = "inf" -> PInf
      [] OTHER -> Fin(49 * (qvol_score.v + trades_score.v)
                      + 1500 * momentum.v - penalty)

score_candidate(t) ==
    LET last_price   == safe_float(get(t, "lastPrice"))
        pct          == safe_float(get(t, "priceChangePercent"))
        trades       == safe_float(get(t, "count"))
        qvol         == safe_float(get(t, "quoteVolume"))
        trades_score == log10_plus1(trades)
        qvol_score   == log10_plus1(qvol)
        momentum     == momentum_of(pct)
        penalty      == tiny_price_penalty_of(last_price)
        score        == weighted_sum(qvol_score, trades_score, momentum, penalty)
    IN  [pct |-> pct, qvol |-> qvol, trades |-> trades, momentum |-> momentum,
         qvol_score |-> qvol_score, trades_score |-> trades_score,
         tiny_penalty |-> penalty, score |-> score]

----------------------------------------------------------------------------
(* scanner.py, lines 93-108: format_watchlist *)

\* int(x): truncation; raises on NaN and on an infinity
int_raises(x) ==
    CASE x.k = "nan" -> "ValueError"
      [] x.k = "fin" -> "none"
      [] OTHER       -> "OverflowError"

\* f"{qvol_m:.1f}" of qvol / 1_000_000.0: tenths of a million, rounded
fmt_vol(qvol) ==
    IF qvol.k = "fin" THEN Fin((qvol.v + 50000) \div 100000) ELSE qvol

\* one line of the report: index, pair, 24h change, volume, trade count
format_row(i, row) ==
    [i      |-> i,
     pair   |-> replace(row.sym, USDT, SLASH_USDT),
     pct    |-> row.d.pct,
     vol    |-> fmt_vol(row.d.qvol),
     trades |-> row.d.trades.v]

\* the exception int(d["trades"]) raises at the first row it fails on
format_raises(rows) ==
    LET bad == {i \in DOMAIN rows : int_raises(rows[i].d.trades) # "none"}
    IN  IF bad = {} THEN "none"
        ELSE int_raises(rows[CHOOSE i \in bad : \A j \in bad : i <= j].d.trades)

\* the report text: header, one line per row, disclaimer
format_watchlist(rows) ==
    [kind  |-> "watchlist",
     lines |-> [i \in DOMAIN rows |-> format_row(i, rows[i])]]

\* the fixed text of line 144
fallback_text == [kind |-> "fallback", lines |-> <<>>]

----------------------------------------------------------------------------
(* scanner.py, lines 115-141: the ranking pipeline of main *)

TOP_N == 200
TOP_K == 5
MIN_QVOL == 5000000
MIN_TRADES == 5000

\* s[:n]
take(s, n) == SubSeq(s, 1, Min2(n, Len(s)))

\* key of the sort of line 118
qvol_key(t) == safe_float(get(t, "quoteVolume"))

\* key of the sort of line 140
score_key(c) == c.score

RECURSIVE desc_keys(_)
\* the distinct keys of a list, largest first
desc_keys(K) ==
    IF K = {} THEN <<>>
    ELSE LET m == CHOOSE a \in K : \A b \in K : ~FLt(a, b)
         IN  <<m>> \o desc_keys(K \ {m})

RECURSIVE asc_keys(_)
\* the distinct keys of a list, smallest first
asc_keys(K) ==
    IF K = {} THEN <<>>
    ELSE LET m == CHOOSE a \in K : \A b \in K : ~FLt(b, a)
         IN  <<m>> \o asc_keys(K \ {m})

\* a plausible slip: reverse=True left out, smallest key first
stable_sort_asc(ps) ==
    LET ks == asc_keys({ps[i].key : i \in DOMAIN ps})
        group[j \in 0..Len(ks)] ==
            IF j = 0 THEN <<>>
            ELSE group[j - 1] \o SelectSeq(ps, LAMBDA e : e.key = ks[j])
    IN  group[Len(ks)]

\* list.sort(key=..., reverse=True) computes every key once and sorts the
\* (key, item) pairs by key alone; ps is that list of pairs.  On keys that
\* are totally ordered: largest key first, pairs with equal keys in the
\* order they had
stable_sort_desc(ps) ==
    LET ks == desc_keys({ps[i].key : i \in DOMAIN ps})
        group[j \in 0..Len(ks)] ==
            IF j = 0 THEN <<>>
            ELSE group[j - 1] \o SelectSeq(ps, LAMBDA e : e.key = ks[j])
    IN  group[Len(ks)]

\* the list turned around
reversed_list(q) == [i \in DOMAIN q |-> q[Len(q) + 1 - i]]

\* listsort's count_run: the length of the run the list starts with, and
\* whether it is a strictly descending one (which is then reversed in place)
count_run(q) ==
    IF Len(q) < 2 THEN [n |-> Len(q), descending |-> FALSE]
    ELSE LET descending == FLt(q[2].key, q[1].key)
             goes_on(m) == \A i \in 3..m : FLt(q[i].key, q[i - 1].key) = descending
         IN  [n |-> CHOOSE m \in 2..Len(q) :
                       goes_on(m) /\ \A m2 \in (m + 1)..Len(q) : ~goes_on(m2),
              descending |-> descending]

\* listsort's binarysort: q[1..n] is sorted; each later element is put, by
\* bisection with < alone, after the elements it is not smaller than
binarysort(q, n) ==
    LET place(done, pivot) ==
            LET pos[l \in 0..Len(done), r \in 0..Len(done)] ==
                    IF l >= r THEN l
                    ELSE LET p == l + ((r - l) \div 2)
                         IN  IF FLt(pivot.key, done[p + 1].key)
                             THEN pos[l, p] ELSE pos[p + 1, r]
                at == pos[0, Len(done)]
            IN  SubSeq(done, 1, at) \o <<pivot>> \o SubSeq(done, at + 1, Len(done))
        upto[m \in n..Len(q)] ==
            IF m = n THEN SubSeq(q, 1, n) ELSE place(upto[m - 1], q[m])
    IN  upto[Len(q)]

\* CPython's list.sort on fewer than 64 elements: one run, extended to the
\* whole list by binary insertion.  It uses < alone, so with a NaN among the
\* keys it leaves what these comparisons lead to, sorted or not.
listsort_small(q) ==
    LET run   == count_run(q)
        first == IF run.descending
                 THEN reversed_list(SubSeq(q, 1, run.n)) \o SubSeq(q, run.n + 1, Len(q))
                 ELSE q
    IN  IF Len(q) < 2 THEN q ELSE binarysort(first, run.n)

\* the items of a list of (key, item) pairs
items_of(ps) == [i \in DOMAIN ps |-> ps[i].item]

\* list.sort(key=..., reverse=True): the list is reversed, sorted ascending
\* and reversed again.  From 64 elements on CPython merges runs: a stable sort
\* when the keys are totally ordered, as they are in the long feeds here.
list_sort_reverse(ps) ==
    IF Len(ps) < 64
    THEN items_of(reversed_list(listsort_small(reversed_list(ps))))
    ELSE items_of(stable_sort_desc(ps))

\* line 118: the keys of the volume sort
by_qvol(ts) == [i \in DOMAIN ts |-> [key |-> qvol_key(ts[i]), item |-> ts[i]]]

\* line 140: the keys of the score sort
by_score(cs) == [i \in DOMAIN cs |-> [key |-> score_key(cs[i]), item |-> cs[i]]]

\* line 115
usdt_of(ts) == SelectSeq(ts, LAMBDA t : is_usdt_spot_symbol(get_symbol(t)))

\* a plausible slip: <= in place of < in the two threshold tests
passes_filters_strict(t) ==
    /\ ~FLe(safe_float(get(t, "quoteVolume")), Fin(MIN_QVOL))
    /\ ~FLe(safe_float(get(t, "count")), Fin(MIN_TRADES))

\* lines 129-134: neither `continue` is taken
passes_filters(t) ==
    /\ ~FLt(safe_float(get(t, "quoteVolume")), Fin(MIN_QVOL))
    /\ ~FLt(safe_float(get(t, "count")), Fin(MIN_TRADES))

\* lines 136-137: (t["symbol"], score, details)
candidate_of(t) ==
    LET d == score_candidate(t)
    IN  [sym |-> t.symbol.v, score |-> d.score, d |-> d]

\* lines 127-137
candidates_of(tp) ==
    LET kept == SelectSeq(tp, passes_filters)
    IN  [i \in DOMAIN kept |-> candidate_of(kept[i])]

\* line 141
best_of(cs) ==
    LET first == take(cs, TOP_K)
    IN  [i \in DOMAIN first |-> [sym |-> first[i].sym, d |-> first[i].d]]

\* a plausible slip: the empty case never recognised
not_best_never(b) == FALSE

\* `not best`
not_best(b) == b = <<>>

\* What lines 115-141 leave in main's locals for a fetched list ts
rank(ts) ==
    LET tp == take(list_sort_reverse(by_qvol(usdt_of(ts))), TOP_N)
        sc == candidates_of(tp)
        cs == list_sort_reverse(by_score(sc))
    IN  [top |-> tp, scored |-> sc, candidates |-> cs, best |-> best_of(cs)]

----------------------------------------------------------------------------
(* Inputs *)

\* the longest variable part of a ticker feed
MaxFeed == 2

Absent  == [k |-> "absent", v |-> 0]
Null    == [k |-> "null", v |-> 0]
Garbage == [k |-> "str", v |-> 0]
Num(n)  == [k |-> "num", v |-> n]
NaNStr  == [k |-> "nan", v |-> 0]
InfStr  == [k |-> "inf", v |-> 0]
NInfStr == [k |-> "ninf", v |-> 0]
Str(cs) == [k |-> "s", v |-> cs]
NoSymbol == [k |-> "absent", v |-> <<>>]

AUSDT == <<"A">> \o USDT
BUSDT == <<"B">> \o USDT

\* a liquid, active pair with a moderate rise: price 1.0, +3.5 %, 9,999
\* trades, 9,999,999 USDT traded
Base ==
    [symbol |-> Str(AUSDT), lastPrice |-> Num(1000000),
     priceChangePercent |-> Num(35), count |-> Num(9999),
     quoteVolume |-> Num(9999999)]

\* as liquid, but one trade short of MIN_TRADES
Dead == [Base EXCEPT !.symbol = Str(<<"D">> \o USDT), !.count = Num(4999)]

Symbols ==
    { AUSDT, BUSDT, USDT, USDT \o USDT, USDT \o <<"A">>, <<"a", "u", "s", "d", "t">>,
      <<"A", "U", "P">> \o USDT, <<"D", "O", "W", "N">> \o USDT,
      <<"A", "B", "U", "L", "L">> \o USDT, <<"B", "E", "A", "R">> \o USDT }

\* what a malformed numeric field can hold
Malformed == {Absent, Null, Garbage, NaNStr, InfStr, NInfStr}

SymbolTickers ==
    {[Base EXCEPT !.symbol = Str(x)] : x \in Symbols}
    \cup {[Base EXCEPT !.symbol = NoSymbol]}
    \cup {[Base EXCEPT !.symbol = Str(<<"A", "U", "P">> \o USDT),
                       !.count = InfStr, !.quoteVolume = InfStr]}

MalformedTickers ==
    {[Base EXCEPT !.lastPrice = x] : x \in Malformed}
    \cup {[Base EXCEPT !.priceChangePercent = x] : x \in Malformed}
    \cup {[Base EXCEPT !.count = x] : x \in Malformed}
    \cup {[Base EXCEPT !.quoteVolume = x] : x \in Malformed}

\* the same pair 8 % up: the highest momentum
Rising == [Base EXCEPT !.symbol = Str(BUSDT), !.priceChangePercent = Num(80)]

ScoreTickers ==
    {[Base EXCEPT !.priceChangePercent = Num(x)]
        : x \in {-10, 0, 35, 80, 150, 300, 450, 1000}}
    \cup {[Base EXCEPT !.lastPrice = Num(x)] : x \in {0, 5, 10}}
    \cup {[Base EXCEPT !.count = Num(x)] : x \in {4999, 5000, 99999}}
    \cup {[Base EXCEPT !.quoteVolume = Num(x)] : x \in {4999999, 5000000, 99999999}}
    \cup {[Base EXCEPT !.symbol = Str(BUSDT)]}

\* the tickers that vary behind a long feed: their keys are totally ordered
PadTickers ==
    { Base, Dead,
      [Base EXCEPT !.symbol = Str(BUSDT)],
      Rising,
      [Base EXCEPT !.symbol = Str(BUSDT), !.priceChangePercent = Num(0)],
      [Base EXCEPT !.symbol = Str(BUSDT), !.quoteVolume = Num(5000000)],
      [Base EXCEPT !.symbol = Str(BUSDT), !.quoteVolume = Num(4999999)],
      [Base EXCEPT !.symbol = Str(BUSDT), !.quoteVolume = Num(99999999)],
      [Base EXCEPT !.symbol = Str(<<"A", "U", "P">> \o USDT),
                   !.quoteVolume = Num(99999999)] }

\* TOP_K live pairs: one more candidate and line 141 cuts
LivePad == [i \in 1..TOP_K |-> Base]

\* TOP_N - 1 eligible pairs, one of them live: two more eligible tickers and
\* line 119 cuts
LongPad == [i \in 1..(TOP_N - 1) |-> IF i = 1 THEN Base ELSE Dead]

SeqsUpTo(S, n) == UNION {[1..m -> S] : m \in 0..n}

Feeds ==
    SeqsUpTo(SymbolTickers, MaxFeed)
    \cup SeqsUpTo(MalformedTickers, MaxFeed)
    \cup {<<Base>> \o v : v \in SeqsUpTo(MalformedTickers \cup {Rising}, MaxFeed)}
    \cup SeqsUpTo(ScoreTickers, MaxFeed)
    \cup {LivePad \o v : v \in SeqsUpTo(PadTickers, MaxFeed)}
    \cup {LongPad \o v : v \in SeqsUpTo(PadTickers, MaxFeed)}

\* the feeds tried with a credential missing
ShortFeeds == SeqsUpTo({Base, Dead}, 1)

AllSet == [token |-> TRUE, chat |-> TRUE]
Envs == [token : BOOLEAN, chat : BOOLEAN]

NoError == [at |-> "none", exc |-> "none"]

----------------------------------------------------------------------------
(* The run *)

Init ==
    /\ \/ env = AllSet /\ market \in Feeds
       \/ env \in Envs \ {AllSet} /\ market \in ShortFeeds
    /\ pc = "start"
    /\ tickers = <<>>
    /\ top = <<>>
    /\ scored = <<>>
    /\ candidates = <<>>
    /\ best = <<>>
    /\ gets = 0
    /\ posts = 0
    /\ sent = <<>>
    /\ formatted = <<>>
    /\ error = NoError

\* a plausible slip: a failed fetch taken for an empty list
fetch_24h_tickers_swallow ==
    /\ pc = "start"
    /\ gets' = gets + 1
    /\ \/ /\ tickers' = market
          /\ pc' = "fetched"
          /\ error' = error
       \/ /\ \E e \in {"ConnectionError", "HTTPError", "JSONDecodeError"} :
                error' = [at |-> "fetch", exc |-> e]
          /\ pc' = "fetched"
          /\ tickers' = <<>>
    /\ UNCHANGED <<env, market, top, scored, candidates, best, posts, sent, formatted>>

\* lines 20-24 and 112: the GET is started; requests.get raises (no answer,
\* timeout), raise_for_status raises (status not 2xx), r.json() raises, or
\* the list comes back
fetch_24h_tickers ==
    /\ pc = "start"
    /\ gets' = gets + 1
    /\ \/ /\ tickers' = market
          /\ pc' = "fetched"
          /\ error' = error
       \/ /\ \E e \in {"ConnectionError", "HTTPError", "JSONDecodeError"} :
                error' = [at |-> "fetch", exc |-> e]
          /\ pc' = "aborted"
          /\ tickers' = tickers
    /\ UNCHANGED <<env, market, top, scored, candidates, best, posts, sent, formatted>>

\* lines 115-141
main_rank ==
    /\ pc = "fetched"
    /\ top' = rank(tickers).top
    /\ scored' = rank(tickers).scored
    /\ candidates' = rank(tickers).candidates
    /\ best' = rank(tickers).best
    /\ pc' = "ranked"
    /\ UNCHANGED <<env, market, tickers, gets, posts, sent, formatted, error>>

\* lines 11-17: os.environ[...] raises KeyError before anything is sent;
\* otherwise the POST is started, and is answered 200, answered otherwise
\* (RuntimeError) or not answered (requests.post raises)
tg_send(text) ==
    \/ /\ ~(env.token /\ env.chat)
       /\ error' = [at |-> "send", exc |-> "KeyError"]
       /\ pc' = "aborted"
       /\ UNCHANGED <<posts, sent>>
    \/ /\ env.token /\ env.chat
       /\ posts' = posts + 1
       /\ \/ /\ sent' = Append(sent, text)
             /\ pc' = "done"
             /\ error' = error
          \/ /\ \E e \in {"RuntimeError", "ConnectionError"} :
                   error' = [at |-> "send", exc |-> e]
             /\ pc' = "aborted"
             /\ sent' = sent

\* lines 143-145
main_fallback ==
    /\ pc = "ranked"
    /\ not_best(best)
    /\ tg_send(fallback_text)
    /\ UNCHANGED <<env, market, tickers, top, scored, candidates, best, gets, formatted>>

\* lines 147-148: format_watchlist raises (int of a NaN or an infinity), or
\* its text is sent
main_report ==
    /\ pc = "ranked"
    /\ ~not_best(best)
    /\ formatted' = Append(formatted, Len(best))
    /\ \/ /\ format_raises(best) # "none"
          /\ error' = [at |-> "format", exc |-> format_raises(best)]
          /\ pc' = "aborted"
          /\ UNCHANGED <<posts, sent>>
       \/ /\ format_raises(best) = "none"
          /\ tg_send(format_watchlist(best))
    /\ UNCHANGED <<env, market, tickers, top, scored, candidates, best, gets>>

Next ==
    \/ fetch_24h_tickers
    \/ main_rank
    \/ main_fallback
    \/ main_report

Spec == Init /\ [][Next]_vars

----------------------------------------------------------------------------
(* Properties *)

Range(q) == {q[i] : i \in DOMAIN q}

\* lines 115-141 have just run: main's locals are set, and the steps after
\* this one leave them as they are
Ranked == pc = "ranked"

MissingCredential == ~(env.token /\ env.chat)

\* C1: with TELEGRAM_BOT_TOKEN or TELEGRAM_CHAT_ID missing the run fails
\* before any I/O: no GET and no POST has been started.
C1_FailsBeforeAnyIO == MissingCredential => (gets = 0 /\ posts = 0)

fails_qvol(t) == FLt(safe_float(get(t, "quoteVolume")), Fin(MIN_QVOL))
fails_trades(t) == FLt(safe_float(get(t, "count")), Fin(MIN_TRADES))

\* the list without its i-th record
remove(q, i) == SubSeq(q, 1, i - 1) \o SubSeq(q, i + 1, Len(q))

\* Where a run of equal adjacent records starts: removing any record of the
\* run leaves the same list, so one removal per run covers them all.
RunStarts(q) == {i \in DOMAIN q : i = 1 \/ q[i] # q[i - 1]}

\* no quoteVolume of the fetched list is NaN: the volume sort is determined
NoNaNVolume == \A i \in DOMAIN tickers : ~IsNaN(qvol_key(tickers[i]))

\* the feed without its i-th record gives the rows the run produced
SameWithout(i) == best = rank(remove(tickers, i)).best

C3_NeverRaises == pc = "aborted" => error.at \in {"fetch", "send"}

C5_Fallback ==
    /\ \A i \in DOMAIN formatted : formatted[i] > 0
    /\ Len(sent) <= 1
    /\ best = <<>> => (formatted = <<>> /\ \A m \in Range(sent) : m = fallback_text)
    /\ (pc = "done" /\ best = <<>>) => sent = <<fallback_text>>
    /\ fallback_text \in Range(sent) => (pc = "done" /\ best = <<>>)

\* a non-empty feed left no rows and the fallback was delivered
C5_Witness == pc = "done" /\ tickers # <<>> /\ sent = <<fallback_text>>

\* C6: a failed fetch ends the run with nothing sent; the send is started at
\* most once and only after a fetch that succeeded; nothing is retried.
C6_FetchFailureAborts ==
    /\ gets <= 1
    /\ posts <= 1
    /\ posts > 0 => (gets = 1 /\ error.at # "fetch" /\ pc \in {"done", "aborted"})
    /\ error.at = "fetch" => (pc = "aborted" /\ posts = 0 /\ sent = <<>>)
    /\ error.at = "send" => pc = "aborted"

\* the fetch failed and the run is over
C6_Witness == error.at = "fetch" /\ pc = "aborted" /\ gets = 1

\* where "USDT" occurs in a symbol
occurrences(sym) == {j \in 1..(Len(sym) - 3) : SubSeq(sym, j, j + 3) = USDT}

\* the symbol with a "/" put before the places J
with_slashes(sym, J) ==
    LET f[j \in 0..Len(sym)] ==
            IF j = 0 THEN <<>>
            ELSE f[j - 1] \o (IF j \in J THEN <<"/">> ELSE <<>>) \o <<sym[j]>>
    IN  f[Len(sym)]

first_occurrence(sym) ==
    IF occurrences(sym) = {} THEN {}
    ELSE {CHOOSE j \in occurrences(sym) : \A m \in occurrences(sym) : j <= m}

\* C7 as claimed: the pair of every line sent is the symbol with a "/" before
\* its first "USDT" only.
C7_FirstOccurrenceOnly ==
    \A m \in Range(sent) : \A i \in DOMAIN m.lines :
        m.lines[i].pair = with_slashes(best[i].sym, first_occurrence(best[i].sym))

\* C7 as amended: the pair of every line sent is the symbol with a "/" before
\* every "USDT" in it.
C7_EveryOccurrence ==
    \A m \in Range(sent) : \A i \in DOMAIN m.lines :
        m.lines[i].pair = with_slashes(best[i].sym, occurrences(best[i].sym))

\* a report was sent for a symbol that holds "USDT" twice
C7_Witness ==
    \E m \in Range(sent) : \E i \in DOMAIN m.lines :
        Cardinality(occurrences(best[i].sym)) = 2

\* s ends with x: s is some prefix of s followed by x
is_suffix(x, s) == \E n \in 0..Len(s) : SubSeq(s, 1, n) \o x = s

leveraged_suffixes ==
    { <<"U", "P", "U", "S", "D", "T">>,
      <<"D", "O", "W", "N", "U", "S", "D", "T">>,
      <<"B", "U", "L", "L", "U", "S", "D", "T">>,
      <<"B", "E", "A", "R", "U", "S", "D", "T">> }

eligible(sym) ==
    /\ is_suffix(<<"U", "S", "D", "T">>, sym)
    /\ \A x \in leveraged_suffixes : ~is_suffix(x, sym)

\* C8: a symbol passes the filter exactly when it ends with "USDT" and with
\* none of the four leveraged suffixes: every ticker kept is eligible, every
\* eligible ticker is kept while no more than TOP_N of them are there, and no
\* row or line sent carries a leveraged suffix.
C8_SymbolFilter ==
    Ranked =>
        /\ \A i \in DOMAIN top : eligible(get_symbol(top[i]))
        /\ Cardinality({i \in DOMAIN tickers : eligible(get_symbol(tickers[i]))}) <= TOP_N
              => \A i \in DOMAIN tickers :
                    eligible(get_symbol(tickers[i])) => tickers[i] \in Range(top)
        /\ \A i \in DOMAIN best :
              \A x \in leveraged_suffixes : ~is_suffix(x, best[i].sym)

\* a leveraged symbol with infinite volume and trade count was fetched beside
\* a pair that made it to the rows
C8_Witness ==
    /\ Ranked
    /\ best # <<>>
    /\ \E i \in DOMAIN tickers :
          /\ \E x \in leveraged_suffixes : is_suffix(x, get_symbol(tickers[i]))
          /\ safe_float(get(tickers[i], "quoteVolume")) = PInf

same_score(c, x) == c.score = x
same_qvol(t, x) == qvol_key(t) = x

\* C10: no candidate comes after one with a smaller score, candidates with
\* equal scores are in the order the volume sort left them, the rows are the
\* first candidates; and the same one step earlier: no ticker of the top list
\* comes after one with a smaller quoteVolume, tickers with equal volumes are
\* in feed order.  (A NaN is neither smaller than nor equal to anything, so
\* nothing is asked of a pair with a NaN in it.)
C10_SortedStable ==
    Ranked =>
        /\ \A i, j \in DOMAIN candidates :
              i < j => ~FLt(candidates[i].score, candidates[j].score)
        /\ \A i \in DOMAIN scored :
              ~IsNaN(scored[i].score) =>
                 SelectSeq(candidates, LAMBDA c : same_score(c, scored[i].score))
                   = SelectSeq(scored, LAMBDA c : same_score(c, scored[i].score))
        /\ \A i \in DOMAIN best : best[i].sym = candidates[i].sym
        /\ \A i, j \in DOMAIN top :
              i < j => ~FLt(qvol_key(top[i]), qvol_key(top[j]))
        /\ \A i \in RunStarts(top) :
              ~IsNaN(qvol_key(top[i])) =>
                 LET mine == SelectSeq(top, LAMBDA t : same_qvol(t, qvol_key(top[i])))
                     fed  == SelectSeq(usdt_of(tickers), LAMBDA t : same_qvol(t, qvol_key(top[i])))
                 IN  mine = take(fed, Len(mine))

=============================================================================
